---- MODULE Spec2Model ----
(***************************************************************************)
(* The seed command of admin-cli (src/main.rs, src/geonames.rs): two admin *)
(* reference tables are loaded, the search index is bootstrapped, and a    *)
(* gazetteer archive is streamed into the index in bulk requests.          *)
(*                                                                         *)
(* Strings the code inspects (country codes, admin codes, lookup keys,     *)
(* document ids) are sequences of one-character strings; an Option<T> is   *)
(* the empty sequence (None, JSON null) or a one-element sequence (Some).  *)
(***************************************************************************)
EXTENDS Integers, Sequences, FiniteSets

\* ---------------------------------------------------------------- bounds
MaxRows == 4      \* longest archive (rows of the gazetteer extract)
MaxBuffer == 2    \* largest --buffer value tried
MaxRuns == 2      \* seed runs in a row against the same search endpoint

\* ------------------------------------------------------ program constants
NOT_FOUND == 404
OK == 200

None == <<>>
Some(x) == <<x>>

\* ------------------------------------------------------------ geonames.rs
\* char::to_uppercase on the letters the sample data uses
UpperChar(c) ==
    CASE c = "u" -> "U"
      [] c = "s" -> "S"
      [] c = "d" -> "D"
      [] c = "e" -> "E"
      [] OTHER -> c

\* str::to_uppercase
ToUppercase(s) == [i \in 1..Len(s) |-> UpperChar(s[i])]

Digit(d) ==
    CASE d = 0 -> "0" [] d = 1 -> "1" [] d = 2 -> "2" [] d = 3 -> "3"
      [] d = 4 -> "4" [] d = 5 -> "5" [] d = 6 -> "6" [] d = 7 -> "7"
      [] d = 8 -> "8" [] d = 9 -> "9"

RECURSIVE NatToString(_)
NatToString(n) ==
    IF n < 10 THEN <<Digit(n)>>
    ELSE NatToString(n \div 10) \o <<Digit(n % 10)>>

\* i64::to_string
to_string(n) == IF n < 0 THEN <<"-">> \o NatToString(-n) ELSE NatToString(n)

\* HashMap<String, String>
EmptyMap == [k \in {} |-> ""]
Insert(m, k, v) == [x \in (DOMAIN m) \cup {k} |-> IF x = k THEN v ELSE m[x]]
Get(m, k) == IF k \in DOMAIN m THEN Some(m[k]) ELSE None

\* format!("{}.{}", ..) and format!("{}.{}.{}", ..)
Admin1KeyAsWritten(loc) == loc.country_code \o <<".">> \o loc.admin1_code
Admin1Key(loc) == ToUppercase(loc.country_code) \o <<".">> \o loc.admin1_code
Admin2Key(loc) ==
    ToUppercase(loc.country_code) \o <<".">> \o loc.admin1_code
        \o <<".">> \o loc.admin2_code

\* Option::filter(|&population| population >= 0)
SanitizePopulationPositive(p) == IF p # None /\ p[1] > 0 THEN p ELSE None
SanitizePopulation(p) == IF p # None /\ p[1] >= 0 THEN p ELSE None

\* "location": [self.longitude, self.latitude]
GeoPointLatLon(loc) == <<loc.latitude, loc.longitude>>
GeoPoint(loc) == <<loc.longitude, loc.latitude>>

\* Location::generate_elasticsearch_document
generate_elasticsearch_document(loc, a1, a2) ==
    [ name              |-> loc.name,
      ascii_name        |-> loc.ascii_name,
      location          |-> GeoPoint(loc),
      elevation         |-> loc.elevation,
      country_code      |-> loc.country_code,
      feature_code      |-> loc.feature_code,
      feature_class     |-> loc.feature_class,
      admin1            |-> Get(a1, Admin1Key(loc)),
      admin2            |-> Get(a2, Admin2Key(loc)),
      population        |-> SanitizePopulation(loc.population),
      timezone          |-> loc.timezone,
      modification_date |-> loc.modification_date ]

\* Location::generate_mapping: the field names of the fixed mapping
generate_mapping ==
    { "name", "ascii_name", "alternate_names", "location", "country_code",
      "feature_code", "admin1", "admin2", "feature_class", "population",
      "elevation", "timezone", "modification_date" }

\* load_admin_file: every row is decoded and inserted in file order; an
\* unreadable file (None) or a row that does not decode (None) fails the load
RECURSIVE InsertRowsUpToError(_, _)
InsertRowsUpToError(m, rs) ==
    IF rs = <<>> \/ Head(rs) = None THEN Some(m)
    ELSE InsertRowsUpToError(Insert(m, Head(rs)[1].code, Head(rs)[1].name), Tail(rs))
RECURSIVE InsertRows(_, _)
InsertRows(m, rs) ==
    IF rs = <<>> THEN Some(m)
    ELSE IF Head(rs) = None THEN None
    ELSE InsertRows(Insert(m, Head(rs)[1].code, Head(rs)[1].name), Tail(rs))

load_admin_file(file) == IF file = None THEN None ELSE InsertRows(EmptyMap, file[1])

\* load_admin_files: both tables or an error
load_admin_files(f1, f2) ==
    IF load_admin_file(f1) = None \/ load_admin_file(f2) = None THEN None
    ELSE Some(<<load_admin_file(f1)[1], load_admin_file(f2)[1]>>)

\* ---------------------------------------------------------- sample inputs
Loc(id, name, cc, a1, a2, pop, lat, lon) ==
    [ id |-> id, name |-> name, ascii_name |-> name, alternate_names |-> "",
      latitude |-> lat, longitude |-> lon, feature_class |-> Some("P"),
      feature_code |-> "PPL", country_code |-> cc, cc2 |-> "",
      admin1_code |-> a1, admin2_code |-> a2, admin3_code |-> <<>>,
      admin4_code |-> None, population |-> pop, elevation |-> None,
      dem |-> Some(10), timezone |-> "UTC", modification_date |-> "2020-01-01" ]

Loc1 == Loc(7, "Oakland", <<"u", "s">>, <<"C", "A">>, <<"0", "1">>, Some(-1), 37, -122)
Loc2 == Loc(12, "Fresno", <<"U", "S">>, <<"C", "A">>, <<>>, Some(0), 36, -119)

\* a row of the extract as csv deserialization yields it: Some(record) or None
\* for a row that fails to decode (an archive may hold a record twice: the
\* code does not require unique ids)
Rows == {Some(Loc1), Some(Loc2), None}

RECURSIVE SeqsUpTo(_, _)
SeqsUpTo(S, n) ==
    IF n = 0 THEN {<<>>}
    ELSE LET shorter == SeqsUpTo(S, n - 1)
         IN  shorter \cup {Append(s, x) : s \in {t \in shorter : Len(t) = n - 1}, x \in S}

AdminRow(code, name) == Some([code |-> code, name |-> name, ascii_name |-> name, geonameid |-> 1])

Admin1Good == Some(<<AdminRow(<<"U", "S", ".", "C", "A">>, "Kalifornien"),
                     AdminRow(<<"U", "S", ".", "C", "A">>, "California")>>)
Admin1BadRow == Some(<<AdminRow(<<"U", "S", ".", "C", "A">>, "California"), None>>)
Admin2Good == Some(<<AdminRow(<<"U", "S", ".", "C", "A", ".", "0", "1">>, "Alameda")>>)
Admin2BadRow == Some(<<None>>)

\* the pairs of reference files tried: both good, or one of them bad
AdminFiles ==
    {<<Admin1Good, Admin2Good>>, <<Admin1BadRow, Admin2Good>>, <<None, Admin2Good>>,
     <<Admin1Good, Admin2BadRow>>, <<Admin1Good, None>>}

\* ------------------------------------------------------------------ state
VARIABLES
    \* what the operator passes and the files it names (fixed over the runs)
    buffer,          \* --buffer
    archiveOk,       \* whether the zip archive opens and has a first entry
    rows,            \* the rows of the archive's first entry, in file order
    admin1File,      \* the admin1 reference file: None (unreadable) or its rows
    admin2File,
    \* the search endpoint, which outlives a run
    indexExists,
    mappingApplied,
    docs,            \* the index: document id -> document
    \* the run in progress
    pc,
    admin1, admin2,  \* the lookups load_admin_files returned
    pos,             \* rows the csv reader has yielded
    records,         \* the records counter
    commands,        \* the pending Vec<BulkOperation>
    inflight,        \* the bulk request awaiting its response, if any
    failure,         \* why the run ended in failure ("none" while it has not)
    \* what the run has done so far, for stating properties
    stdout,          \* the lines printed, as <<text>> or <<text, number>>
    calls,           \* the calls made to the endpoint and the archive, in order
    requests,        \* the bodies of the bulk requests issued, in order
    responses,       \* how each bulk request was answered: [kind, body]
    bootReplies,     \* how the exists, create and mapping calls were answered
    indexAtStart,    \* whether the index existed when the run started
    diagWrites,      \* the response bodies this run has written to error.log
    runs             \* the number of this run (runs before it included)

config == <<buffer, archiveOk, rows, admin1File, admin2File>>
server == <<indexExists, mappingApplied, docs>>
lookups == <<admin1, admin2>>
reader == <<pos, records, commands>>
past == <<runs>>
vars == <<config, server, pc, lookups, reader, inflight, failure,
          stdout, calls, requests, responses, bootReplies, indexAtStart,
          diagWrites, past>>

Init ==
    /\ buffer \in 0..MaxBuffer
    /\ archiveOk \in BOOLEAN
    /\ rows \in (IF archiveOk THEN SeqsUpTo(Rows, MaxRows) ELSE {<<>>})
    /\ \E files \in AdminFiles : admin1File = files[1] /\ admin2File = files[2]
    /\ indexExists \in BOOLEAN
    /\ mappingApplied = indexExists
    /\ docs = EmptyMap
    /\ pc = "start"
    /\ admin1 = EmptyMap
    /\ admin2 = EmptyMap
    /\ pos = 0
    /\ records = 0
    /\ commands = <<>>
    /\ inflight = None
    /\ failure = "none"
    /\ stdout = <<>>
    /\ calls = <<>>
    /\ requests = <<>>
    /\ responses = <<>>
    /\ bootReplies = <<>>
    /\ indexAtStart = indexExists
    /\ diagWrites = <<>>
    /\ runs = 1

\* ------------------------------------------------------- the search endpoint
\* StatusCode::is_success
is_success(status) == status >= 200 /\ status < 300

\* the exists check is answered OK or NOT_FOUND as the index is there or
\* not, or with an error status (send() returns Ok(response) for any status)
ExistsStatuses == IF indexExists THEN {OK, 500} ELSE {NOT_FOUND, 500}
CreateStatuses == {OK, 400}
MappingStatuses == {OK, 400}

\* the index after the operations of a bulk body the endpoint carried out
\* (items[i] says whether operation i was), each an upsert by id, in order
RECURSIVE ApplyOps(_, _, _, _)
ApplyOps(d, ops, items, i) ==
    IF i > Len(ops) THEN d
    ELSE ApplyOps(IF items[i] THEN Insert(d, ops[i].id, ops[i].doc) ELSE d,
                  ops, items, i + 1)

\* what can come back for a bulk request: the endpoint carries out some of
\* the operations and reports errors = (one failed); or it rejects the request
\* with a body that has no errors field; or the exchange fails in transport
\* after the endpoint did whatever it did
BulkReplies(ops) ==
    { [delivered |-> d, items |-> it,
       body |-> [errors |-> Some(\E i \in 1..Len(ops) : ~it[i]), items |-> it]] :
        d \in BOOLEAN, it \in [1..Len(ops) -> BOOLEAN] }
    \cup
    { [delivered |-> TRUE, items |-> [i \in 1..Len(ops) |-> FALSE],
       body |-> [errors |-> None, items |-> <<>>]] }

\* an index operation carried out on an index that does not exist creates
\* it, without the mapping
IndexAfterBulk(items) == indexExists \/ (\E i \in DOMAIN items : items[i])

\* a bulk reply as the history records it
ReplyKind(reply) ==
    IF ~reply.delivered THEN "transport"
    ELSE IF reply.body.errors = None THEN "malformed"
    ELSE IF reply.body.errors[1] THEN "errors"
    ELSE "ok"

Answered(reply) == Append(responses, [kind |-> ReplyKind(reply), body |-> reply.body])

BootReply(call, delivered, status) ==
    Append(bootReplies, [call |-> call, delivered |-> delivered, status |-> status])

\* ---------------------------------------------------------------- main.rs
FailStartsOver(why) == pc' = "start" /\ failure' = why
Fail(why) == pc' = "failed" /\ failure' = why

\* BulkOperation::index(document).id(record.id.to_string())
BulkOperationNumbered(loc) ==
    [id |-> to_string(records + 1), doc |-> generate_elasticsearch_document(loc, admin1, admin2)]
BulkOperation(loc) ==
    [id |-> to_string(loc.id), doc |-> generate_elasticsearch_document(loc, admin1, admin2)]

\* exists_response.status_code() == StatusCode::NOT_FOUND
IndexMissingOrUnmapped(status) == status = NOT_FOUND \/ ~mappingApplied
IndexMissing(status) == status = NOT_FOUND

\* StatusCode::is_success(&create_index_response.status_code())
CreateSucceededUnchecked(status) == TRUE
CreateSucceeded(status) == is_success(status)

\* records % buffer on usize: panics when the divisor is zero (None)
RemOfZeroDivisorIsDividend(n, cap) == IF cap = 0 THEN Some(n) ELSE Some(n % cap)
Rem(n, cap) == IF cap = 0 THEN None ELSE Some(n % cap)

\* records % buffer == 0
FlushDueOffByOne(n, cap) == n % (cap + 1) = 0
FlushDueFromCapacityOn(n, cap) == n >= cap
FlushDue(n, cap) == Rem(n, cap) = Some(0)

\* !response_body["errors"].as_bool().unwrap(), once unwrap has not panicked
SuccessUnchecked(response_body) == TRUE
Success(response_body) == ~response_body.errors[1]

\* Vec::with_capacity(*buffer)
NewBuffer(cap) == <<>>

\* apply_mapping_response.status_code() == StatusCode::OK
MappingOk(status) == status = OK

\* !commands.is_empty()
NeedsFinalFlushNever(cmds) == FALSE
NeedsFinalFlush(cmds) == cmds # <<>>

\* client.bulk(..).body(commands).send(): the vector is moved into the
\* request, and the variable holds nothing until it is assigned again
SendBulk(cmds) ==
    /\ inflight' = Some(cmds)
    /\ commands' = <<>>
    /\ requests' = Append(requests, cmds)
    /\ calls' = Append(calls, "bulk")

\* .send().await? inside the loop: the loop goes no further until the
\* response is there
AwaitSkipped == pc' = "read"
Await == pc' = "bulk_loop"

\* println!("Inserted {} records", records): the running total of records
InsertedLineOfBatch == <<"Inserted records", Len(inflight[1])>>
InsertedLine == <<"Inserted records", records>>

\* let record: Location = result?  on a row that does not decode
RowErrorSkipped == UNCHANGED <<pc, failure>>
RowError == Fail("decode")

\* lines 76-87: load the lookups, connect, send the exists check
LoadAdminFiles ==
    /\ pc = "start"
    /\ LET loaded == load_admin_files(admin1File, admin2File) IN
       IF loaded = None
       THEN /\ Fail("admin")
            /\ stdout' = Append(stdout, <<"Loading admin files">>)
            /\ UNCHANGED <<lookups, calls>>
       ELSE /\ admin1' = loaded[1][1]
            /\ admin2' = loaded[1][2]
            /\ stdout' = stdout \o <<(<<"Loading admin files">>), <<"Creating connection">>,
                                     <<"Checking to see if index exists">>>>
            /\ calls' = Append(calls, "exists")
            /\ pc' = "exists"
            /\ UNCHANGED failure
    /\ UNCHANGED <<config, server, reader, inflight, requests,
                   responses, bootReplies, indexAtStart, diagWrites, past>>

\* lines 87-95 and 114-118: the answer to the exists check
ExistsResponse ==
    /\ pc = "exists"
    /\ \E delivered \in BOOLEAN, status \in ExistsStatuses :
        /\ bootReplies' = BootReply("exists", delivered, status)
        /\ IF ~delivered
           THEN Fail("transport") /\ UNCHANGED <<stdout, calls>>
           ELSE IF IndexMissing(status)
           THEN /\ stdout' = Append(stdout, <<"Creating index with mapping">>)
                /\ calls' = Append(calls, "create")
                /\ pc' = "create"
                /\ UNCHANGED failure
           ELSE /\ stdout' = stdout \o <<(<<"Index exists">>), <<"Opening file">>>>
                /\ pc' = "open"
                /\ UNCHANGED <<failure, calls>>
    /\ UNCHANGED <<config, server, lookups, reader, inflight, requests,
                   responses, indexAtStart, diagWrites, past>>

\* lines 95-104 and 111-113: the answer to the create call; the endpoint has
\* created the index when it answers with a success status
CreateResponse ==
    /\ pc = "create"
    /\ \E delivered \in BOOLEAN, status \in CreateStatuses :
        /\ indexExists' = (indexExists \/ is_success(status))
        /\ bootReplies' = BootReply("create", delivered, status)
        /\ IF ~delivered
           THEN Fail("transport") /\ UNCHANGED <<stdout, calls>>
           ELSE IF CreateSucceeded(status)
           THEN /\ stdout' = Append(stdout, <<"Applying Mapping">>)
                /\ calls' = Append(calls, "put_mapping")
                /\ pc' = "mapping"
                /\ UNCHANGED failure
           ELSE Fail("create") /\ UNCHANGED <<stdout, calls>>
    /\ UNCHANGED <<config, mappingApplied, docs, lookups, reader, inflight,
                   requests, responses, indexAtStart, diagWrites, past>>

\* lines 104-110 and 118: the answer to the mapping call; the endpoint has
\* applied the mapping when it answers OK
MappingResponse ==
    /\ pc = "mapping"
    /\ \E delivered \in BOOLEAN, status \in MappingStatuses :
        /\ mappingApplied' = (mappingApplied \/ (indexExists /\ status = OK))
        /\ bootReplies' = BootReply("put_mapping", delivered, status)
        /\ IF ~delivered
           THEN Fail("transport") /\ UNCHANGED stdout
           ELSE IF MappingOk(status)
           THEN /\ stdout' = stdout \o <<(<<"Created mapping for index">>), <<"Opening file">>>>
                /\ pc' = "open"
                /\ UNCHANGED failure
           ELSE Fail("mapping") /\ UNCHANGED stdout
    /\ UNCHANGED <<config, indexExists, docs, lookups, reader, inflight,
                   calls, requests, responses, indexAtStart, diagWrites, past>>

\* lines 119-130: open the archive, take its first entry, build the reader
OpenArchive ==
    /\ pc = "open"
    /\ calls' = Append(calls, "open")
    /\ IF archiveOk
       THEN /\ stdout' = Append(stdout, <<"Building file reader">>)
            /\ records' = 0
            /\ commands' = <<>>
            /\ pos' = 0
            /\ pc' = "read"
            /\ UNCHANGED failure
       ELSE Fail("open") /\ UNCHANGED <<stdout, reader>>
    /\ UNCHANGED <<config, server, lookups, inflight, requests,
                   responses, bootReplies, indexAtStart, diagWrites, past>>

\* lines 132-149: one turn of the record loop, up to the bulk request it sends
ReadRecord ==
    /\ pc = "read"
    /\ pos < Len(rows)
    /\ pos' = pos + 1
    /\ LET result == rows[pos + 1] IN
       IF result = None
       THEN /\ RowError
            /\ UNCHANGED <<records, commands, inflight, stdout, calls, requests>>
       ELSE LET cmds == Append(commands, BulkOperation(result[1]))
                n == records + 1
            IN  /\ records' = n
                /\ IF Rem(n, buffer) = None
                   THEN /\ commands' = cmds
                        /\ Fail("remainder by zero")
                        /\ UNCHANGED <<inflight, stdout, calls, requests>>
                   ELSE IF FlushDue(n, buffer)
                   THEN /\ stdout' = Append(stdout, <<"Loaded commands", n>>)
                        /\ SendBulk(cmds)
                        /\ Await
                        /\ UNCHANGED failure
                   ELSE /\ commands' = cmds
                        /\ UNCHANGED <<pc, failure, inflight, stdout, calls, requests>>
    /\ UNCHANGED <<config, server, lookups, responses, bootReplies,
                   indexAtStart, diagWrites, past>>

\* lines 149-162: the answer to a bulk request sent inside the loop
BulkResponseLoop ==
    /\ pc = "bulk_loop"
    /\ \E reply \in BulkReplies(inflight[1]) :
        /\ docs' = ApplyOps(docs, inflight[1], reply.items, 1)
        /\ indexExists' = IndexAfterBulk(reply.items)
        /\ responses' = Answered(reply)
        /\ IF ~reply.delivered
           THEN /\ Fail("transport")
                /\ UNCHANGED <<commands, stdout, diagWrites>>
           ELSE LET response_body == reply.body IN
                IF response_body.errors = None
                THEN /\ Fail("unwrap")
                     /\ UNCHANGED <<commands, stdout, diagWrites>>
                ELSE IF Success(response_body)
                THEN /\ commands' = NewBuffer(buffer)
                     /\ stdout' = Append(stdout, InsertedLine)
                     /\ pc' = "read"
                     /\ UNCHANGED <<failure, diagWrites>>
                ELSE /\ diagWrites' = Append(diagWrites, response_body)
                     /\ Fail("bulk errors")
                     /\ UNCHANGED <<commands, stdout>>
    /\ inflight' = None
    /\ UNCHANGED <<config, mappingApplied, lookups, pos, records,
                   calls, requests, bootReplies, indexAtStart, past>>

\* lines 132 and 165-170, 180-181: the stream is exhausted
EndOfStream ==
    /\ pc = "read"
    /\ pos = Len(rows)
    /\ IF NeedsFinalFlush(commands)
       THEN /\ SendBulk(commands)
            /\ pc' = "bulk_final"
            /\ UNCHANGED stdout
       ELSE /\ stdout' = Append(stdout, <<"Done sending to elasticsearch">>)
            /\ pc' = "done"
            /\ UNCHANGED <<inflight, calls, requests, commands>>
    /\ UNCHANGED <<config, server, lookups, pos, records, failure, responses,
                   bootReplies, indexAtStart, diagWrites, past>>

\* lines 170-181: the answer to the bulk request sent after the loop
BulkResponseFinal ==
    /\ pc = "bulk_final"
    /\ \E reply \in BulkReplies(inflight[1]) :
        /\ docs' = ApplyOps(docs, inflight[1], reply.items, 1)
        /\ indexExists' = IndexAfterBulk(reply.items)
        /\ responses' = Answered(reply)
        /\ IF ~reply.delivered
           THEN Fail("transport") /\ UNCHANGED stdout
           ELSE IF reply.body.errors = None
           THEN Fail("unwrap") /\ UNCHANGED stdout
           ELSE IF Success(reply.body)
           THEN /\ stdout' = stdout \o <<InsertedLine,
                                         <<"Done sending to elasticsearch">>>>
                /\ pc' = "done"
                /\ UNCHANGED failure
           ELSE Fail("bulk errors") /\ UNCHANGED stdout
    /\ inflight' = None
    /\ UNCHANGED <<config, mappingApplied, lookups, reader,
                   calls, requests, bootReplies, indexAtStart, diagWrites, past>>

\* the operator invokes the seed command again, with the same arguments
StartRun ==
    /\ pc \in {"done", "failed"}
    /\ runs < MaxRuns
    /\ runs' = runs + 1
    /\ pc' = "start"
    /\ admin1' = EmptyMap
    /\ admin2' = EmptyMap
    /\ pos' = 0
    /\ records' = 0
    /\ commands' = <<>>
    /\ inflight' = None
    /\ failure' = "none"
    /\ stdout' = <<>>
    /\ calls' = <<>>
    /\ requests' = <<>>
    /\ responses' = <<>>
    /\ bootReplies' = <<>>
    /\ indexAtStart' = indexExists
    /\ diagWrites' = <<>>
    /\ UNCHANGED <<config, server>>

Next ==
    \/ LoadAdminFiles
    \/ ExistsResponse
    \/ CreateResponse
    \/ MappingResponse
    \/ OpenArchive
    \/ ReadRecord
    \/ BulkResponseLoop
    \/ EndOfStream
    \/ BulkResponseFinal
    \/ StartRun

Spec == Init /\ [][Next]_vars

\* the steps of a run: run() is one sequential procedure that is polled to
\* completion by the runtime (#[tokio::main], main.rs 242-246), so a step of
\* it that can be taken is taken; the endpoint answers every request it is
\* sent, with a response or with a connection failure. Whether the command
\* is started again is up to the operator.
RunStep ==
    \/ LoadAdminFiles
    \/ ExistsResponse
    \/ CreateResponse
    \/ MappingResponse
    \/ OpenArchive
    \/ ReadRecord
    \/ BulkResponseLoop
    \/ EndOfStream
    \/ BulkResponseFinal

FairSpec == Spec /\ WF_vars(RunStep)

\* ------------------------------------------- the enrichment of one record
\* generate_elasticsearch_document applied by the loop to one record, over
\* records and reference tables that cover its cases: population absent,
\* negative, zero and positive; country codes in either case; admin codes
\* empty or not; keys in the tables or not
MaxPopulation == 2
MaxCoordinate == 1

CountryCodes == {<<"u", "s">>, <<"U", "S">>, <<"U", "s">>, <<"d", "e">>}
Admin1Codes == {<<>>, <<"C", "A">>}
Admin2Codes == {<<>>, <<"0", "1">>}
Populations == {None} \cup {Some(n) : n \in (0 - MaxPopulation)..MaxPopulation}
Coordinates == (0 - MaxCoordinate)..MaxCoordinate

EnrichLocations ==
    {Loc(7, "Oakland", cc, a1, a2, pop, lat, lon) :
        cc \in CountryCodes, a1 \in Admin1Codes, a2 \in Admin2Codes,
        pop \in Populations, lat \in Coordinates, lon \in Coordinates}

\* reference files: empty, the good ones, one keyed in lower case, and ones
\* with an entry under a key with an empty admin code
EnrichAdmin1Files ==
    {Some(<<>>), Admin1Good,
     Some(<<AdminRow(<<"u", "s", ".", "C", "A">>, "california")>>),
     Some(<<AdminRow(<<"U", "S", ".">>, "Nowhere"),
            AdminRow(<<"D", "E", ".", "C", "A">>, "Kanada")>>)}
EnrichAdmin2Files ==
    {Some(<<>>), Admin2Good,
     Some(<<AdminRow(<<"U", "S", ".", "C", "A", ".">>, "Unorganized"),
            AdminRow(<<"U", "S", ".", ".">>, "Nowhere")>>)}

\* the run as it stands when the loop starts on an archive of one record:
\* lookups loaded from the reference files, index found, archive open
InitEnrich ==
    /\ buffer = MaxBuffer
    /\ archiveOk = TRUE
    /\ \E loc \in EnrichLocations : rows = <<Some(loc)>>
    /\ admin1File \in EnrichAdmin1Files
    /\ admin2File \in EnrichAdmin2Files
    /\ admin1 = load_admin_file(admin1File)[1]
    /\ admin2 = load_admin_file(admin2File)[1]
    /\ indexExists = TRUE
    /\ mappingApplied = TRUE
    /\ docs = EmptyMap
    /\ pc = "read"
    /\ pos = 0
    /\ records = 0
    /\ commands = <<>>
    /\ inflight = None
    /\ failure = "none"
    /\ stdout = <<>>
    /\ calls = <<"exists", "open">>
    /\ requests = <<>>
    /\ responses = <<>>
    /\ bootReplies = <<[call |-> "exists", delivered |-> TRUE, status |-> OK]>>
    /\ indexAtStart = TRUE
    /\ diagWrites = <<>>
    /\ runs = 1

NextEnrich == ReadRecord

EnrichSpec == InitEnrich /\ [][NextEnrich]_vars

\* ------------------------------------------------------------- properties
RECURSIVE Flatten(_)
Flatten(reqs) == IF reqs = <<>> THEN <<>> ELSE Head(reqs) \o Flatten(Tail(reqs))

Ceil(m, n) == (m + n - 1) \div n

Count(call) == Cardinality({i \in 1..Len(calls) : calls[i] = call})

DigitValue(c) == CHOOSE d \in 0..9 : Digit(d) = c

\* the number a decimal numeral denotes
RECURSIVE DecimalValue(_)
DecimalValue(s) ==
    IF s = <<>> THEN 0
    ELSE IF Head(s) = "-" THEN 0 - DecimalValue(Tail(s))
    ELSE 10 * DecimalValue(SubSeq(s, 1, Len(s) - 1)) + DigitValue(s[Len(s)])

\* the lookups the two reference files hold (the later row of a code wins)
Admin1Table == [k \in {<<"U", "S", ".", "C", "A">>} |-> "California"]
Admin2Table == [k \in {<<"U", "S", ".", "C", "A", ".", "0", "1">>} |-> "Alameda"]

AllRowsDecode == \A i \in 1..Len(rows) : rows[i] # None
DecodeFailed == \E i \in 1..pos : rows[i] = None
AllAcknowledged ==
    /\ Len(responses) = Len(requests)
    /\ \A k \in 1..Len(responses) : responses[k].kind = "ok"
BulkErrorAt(k) == k \in 1..Len(responses) /\ responses[k].kind = "errors"
DoneReported == \E i \in 1..Len(stdout) : stdout[i] = <<"Done sending to elasticsearch">>

\* operation i of the bulk bodies issued is the index operation of row i
SentInFileOrder ==
    LET sent == Flatten(requests) IN
    \A i \in 1..Len(sent) :
        /\ i <= Len(rows)
        /\ rows[i] # None
        /\ DecimalValue(sent[i].id) = rows[i][1].id
        /\ sent[i].doc = generate_elasticsearch_document(rows[i][1], Admin1Table, Admin2Table)

\* C1: with capacity N >= 1 and M records that all decode and bulk responses
\* that all report no errors, a completed run has issued exactly ceil(M/N) bulk
\* requests, all of N operations except the last, which carries the remaining
\* M - N*(ceil(M/N) - 1); the bodies concatenated are the records in file
\* order, each once, under its id written in decimal.
C1_BatchesPartitionTheStream ==
    (pc = "done" /\ buffer >= 1 /\ AllRowsDecode /\ AllAcknowledged) =>
        LET M == Len(rows)
            N == buffer
            K == Ceil(M, N)
        IN  /\ Len(requests) = K
            /\ \A j \in 1..(K - 1) : Len(requests[j]) = N
            /\ K > 0 => Len(requests[K]) = M - N * (K - 1)
            /\ \A j \in 1..K : Len(requests[j]) > 0
            /\ Len(Flatten(requests)) = M
            /\ SentInFileOrder

C1_Witness ==
    /\ pc = "done" /\ buffer = 2 /\ Len(rows) = 3 /\ AllRowsDecode
    /\ Len(requests) = 2 /\ Len(requests[1]) = 2 /\ Len(requests[2]) = 1
    /\ rows[1] # rows[3]

\* C2: once the response to the k-th bulk request reports errors, the run is
\* over: in no later step of the run is a bulk request issued (the failed
\* batch again or another), a record read or any call made.
C2_AbortOnBulkError ==
    [][ ((\E k \in 1..Len(responses') : responses'[k].kind = "errors") /\ runs' = runs) =>
            /\ pc' = "failed"
            /\ inflight' = None
            /\ requests' = requests
            /\ calls' = calls
            /\ pos' = pos
            /\ responses'[Len(requests')].kind = "errors" ]_vars

C2_Witness ==
    /\ buffer = 1 /\ Len(rows) = 3 /\ AllRowsDecode
    /\ pc = "failed" /\ Len(requests) = 2 /\ BulkErrorAt(2) /\ pos = 2

\* C3: every bulk response that reports errors, to a batch flushed inside the
\* loop or to the one flushed at end of stream, has its body written to
\* error.log by the time the run has aborted.
C3_DiagnosticForEveryBulkError ==
    \A k \in 1..Len(responses) :
        responses[k].kind = "errors" =>
            /\ diagWrites = <<responses[k].body>>

\* C4: the calls of a run are the exists check, then, when the index was
\* absent, one create and one mapping-apply in that order and otherwise
\* neither, then the opening of the archive, then the bulk requests.
C4_BootstrapBeforeIngestion ==
    LET boot == IF indexAtStart THEN <<"exists">>
                ELSE <<"exists", "create", "put_mapping">>
    IN  /\ \A i \in 1..Len(calls) :
            /\ i <= Len(boot) => calls[i] = boot[i]
            /\ i = Len(boot) + 1 => calls[i] = "open"
            /\ i > Len(boot) + 1 => calls[i] = "bulk"
        /\ Len(requests) = Count("bulk")
        /\ (Count("open") > 0 /\ ~indexAtStart) =>
               Count("create") = 1 /\ Count("put_mapping") = 1
        /\ indexAtStart => Count("create") = 0 /\ Count("put_mapping") = 0

\* C5: a run reports success only when the lookups loaded, the bootstrap went
\* through, every row was read and decoded and every bulk request was
\* acknowledged without errors, all records sent; a run in which a load, a
\* bootstrap call, a row or a bulk request failed never reports success.
RunHitError ==
    \/ load_admin_files(admin1File, admin2File) = None /\ pc # "start"
    \/ \E i \in 1..Len(bootReplies) :
          \/ ~bootReplies[i].delivered
          \/ bootReplies[i].call = "create" /\ ~is_success(bootReplies[i].status)
          \/ bootReplies[i].call = "put_mapping" /\ bootReplies[i].status # OK
    \/ Count("open") > 0 /\ ~archiveOk
    \/ DecodeFailed
    \/ \E k \in 1..Len(responses) : responses[k].kind # "ok"

C5_SuccessOnlyAfterCompleteIngestion ==
    /\ (pc = "done" \/ DoneReported) =>
          /\ pc = "done" /\ DoneReported /\ failure = "none"
          /\ stdout[Len(stdout)] = <<"Done sending to elasticsearch">>
          /\ admin1 = Admin1Table /\ admin2 = Admin2Table
          /\ indexExists /\ (indexAtStart \/ mappingApplied)
          /\ pos = Len(rows) /\ AllRowsDecode
          /\ AllAcknowledged
          /\ Len(Flatten(requests)) = Len(rows)
          /\ inflight = None
    /\ RunHitError => (pc = "failed" /\ ~DoneReported)

\* C6: when the k-th bulk response reports errors the run has aborted with
\* the requests before it acknowledged and their documents in the index, and
\* with nothing sent for a record after the k-th batch: what was sent is the
\* rows up to the end of that batch, in file order, and (the index having
\* been empty before the run) the index holds documents of those rows only.
C6_CommittedBeforeNothingAfter ==
    \A k \in 1..Len(responses) :
        responses[k].kind = "errors" =>
            LET sent == Flatten(requests) IN
            /\ pc = "failed"
            /\ k = Len(requests)
            /\ \A j \in 1..(k - 1) :
                  /\ responses[j].kind = "ok"
                  /\ \A i \in 1..Len(requests[j]) : requests[j][i].id \in DOMAIN docs
            /\ SentInFileOrder
            /\ Len(sent) = pos
            /\ runs = 1 =>
                  \A id \in DOMAIN docs :
                      \E i \in 1..Len(sent) : sent[i].id = id /\ sent[i].doc = docs[id]

C6_Witness ==
    /\ pc = "failed" /\ runs = 1 /\ buffer = 1 /\ Len(rows) = 3 /\ BulkErrorAt(2)
    /\ rows[1] = Some(Loc1) /\ rows[2] = Some(Loc2) /\ rows[3] = Some(Loc2)
    /\ DOMAIN docs = {<<"7">>}

\* the index a complete ingestion of the archive leaves: one document per
\* distinct id, that of the last row with the id
LastRowWith(n) == CHOOSE i \in 1..Len(rows) :
    /\ rows[i][1].id = n
    /\ \A j \in (i + 1)..Len(rows) : rows[j][1].id # n

IngestedOnce(d) ==
    /\ \A i \in 1..Len(rows) : \E id \in DOMAIN d : DecimalValue(id) = rows[i][1].id
    /\ \A id \in DOMAIN d :
          /\ \E i \in 1..Len(rows) : rows[i][1].id = DecimalValue(id)
          /\ d[id] = generate_elasticsearch_document(
                         rows[LastRowWith(DecimalValue(id))][1], Admin1Table, Admin2Table)
    /\ Cardinality(DOMAIN d) = Cardinality({rows[i][1].id : i \in 1..Len(rows)})

\* C7: starting from an empty index, whenever a run completes, whatever runs
\* came before it and wherever they stopped, the index holds exactly what one
\* complete ingestion of the archive leaves, and as many documents.
C7_RerunIdempotent == pc = "done" => (AllRowsDecode /\ IngestedOnce(docs))

C7_Witness ==
    /\ pc = "done" /\ runs = 2 /\ buffer = 2
    /\ Len(rows) = 3 /\ rows[1] = Some(Loc1) /\ rows[2] = Some(Loc2) /\ rows[3] = Some(Loc1)
    /\ Cardinality(DOMAIN docs) = 2

\* C8: the step that reads a row that does not decode ends the run in
\* failure at that row: it is the first such row, nothing is sent in that
\* step or later, the records buffered since the last flush stay unsent, and
\* the batches flushed before are acknowledged and in the index.
C8_DecodeErrorAborts ==
    [][ (DecodeFailed' /\ runs' = runs) =>
            /\ pc' = "failed"
            /\ rows[pos'] = None
            /\ \A i \in 1..(pos' - 1) : rows[i] # None
            /\ requests' = requests
            /\ calls' = calls
            /\ inflight' = None
            /\ docs' = docs
            /\ commands' = commands
            /\ Len(Flatten(requests')) + Len(commands') = pos' - 1
            /\ AllAcknowledged'
            /\ \A j \in 1..Len(requests') : \A i \in 1..Len(requests'[j]) :
                  requests'[j][i].id \in DOMAIN docs' ]_vars

C8_Witness ==
    /\ pc = "failed" /\ failure = "decode" /\ buffer = 2 /\ pos = 4
    /\ Len(requests) = 1 /\ Len(commands) = 1 /\ DecodeFailed

\* C9: after a create call answered with a status that is not a success, or a
\* mapping call answered with a status other than OK, the run has aborted, the
\* archive was never opened and no bulk request issued; after the former no
\* mapping call was made, after the latter the index exists without the
\* mapping and the mapping call was made once.
CreateRefused ==
    \E i \in 1..Len(bootReplies) :
        /\ bootReplies[i].call = "create" /\ bootReplies[i].delivered
        /\ ~is_success(bootReplies[i].status)
MappingRefused ==
    \E i \in 1..Len(bootReplies) :
        /\ bootReplies[i].call = "put_mapping" /\ bootReplies[i].delivered
        /\ bootReplies[i].status # OK

C9_BootstrapFailureAborts ==
    /\ (CreateRefused \/ MappingRefused) =>
          /\ pc = "failed"
          /\ Count("open") = 0 /\ Count("bulk") = 0 /\ requests = <<>>
          /\ pos = 0 /\ inflight = None
    /\ CreateRefused => Count("put_mapping") = 0 /\ Count("create") = 1
    /\ MappingRefused =>
          /\ Count("put_mapping") = 1 /\ Count("create") = 1
          /\ indexExists /\ ~mappingApplied

C9_Witness ==
    /\ MappingRefused /\ pc = "failed" /\ failure = "mapping"
    /\ calls = <<"exists", "create", "put_mapping">>

\* C10: with capacity N >= 1 the buffer never holds more than N operations;
\* it is empty until the first record is read and whenever the records read
\* so far have all been flushed, and a request sent from inside the loop, as
\* is every request but the last, took exactly N operations from it.
C10_BufferWithinCapacity ==
    buffer >= 1 =>
        /\ Len(commands) <= buffer
        /\ pos = 0 => commands = <<>>
        /\ pc = "read" =>
              /\ Len(commands) = records - Len(Flatten(requests))
              /\ (AllAcknowledged /\ Len(Flatten(requests)) = records) => commands = <<>>
        /\ pc \in {"bulk_loop", "bulk_final", "done"} => commands = <<>>
        /\ pc = "bulk_loop" =>
              /\ Len(inflight[1]) = buffer
              /\ requests[Len(requests)] = inflight[1]
        /\ \A j \in 1..(Len(requests) - 1) : Len(requests[j]) = buffer

C10_Witness ==
    /\ pc = "read" /\ buffer = 2 /\ records = 4 /\ commands = <<>>
    /\ Len(requests) = 2 /\ Len(responses) = 2

\* the "Inserted n records" lines printed so far in this run
InsertedLines == SelectSeq(stdout, LAMBDA line : line[1] = "Inserted records")

\* C11: the j-th inserted count reported in a run is the number of index
\* operations in the first j bulk requests, all of them acknowledged without
\* errors; there are as many reported counts as requests acknowledged without
\* errors, so none is reported for a response with errors; and whenever
\* every record read has been sent and acknowledged the last reported count
\* is the number of records read so far.
C11_InsertedCountIsAcknowledgedTotal ==
    /\ Len(InsertedLines) = Cardinality({k \in 1..Len(responses) : responses[k].kind = "ok"})
    /\ \A j \in 1..Len(InsertedLines) :
          /\ responses[j].kind = "ok"
          /\ InsertedLines[j][2] = Len(Flatten(SubSeq(requests, 1, j)))
    /\ (pc \in {"read", "done"} /\ commands = <<>> /\ InsertedLines # <<>>) =>
          InsertedLines[Len(InsertedLines)][2] = records /\ records = pos

C11_Witness ==
    /\ buffer = 2 /\ Len(rows) = 4 /\ pc = "failed" /\ Len(responses) = 2
    /\ responses[1].kind = "ok" /\ responses[2].kind = "errors"
    /\ InsertedLines = <<(<<"Inserted records", 2>>)>>

\* bulk requests sent and not yet answered
Outstanding == Len(requests) - Len(responses)

\* C12: at most one bulk request is outstanding at any time, and from the
\* sending of a request to the handling of its response no row is read,
\* no operation is built or appended to the buffer and no other request is
\* sent: the only step taken is the handling of that response.
C12_OneRequestOutstanding ==
    /\ [](Outstanding \in {0, 1} /\ (Outstanding = 1 <=> inflight # None))
    /\ [][Outstanding = 1 =>
            /\ pos' = pos /\ records' = records
            /\ commands = <<>> /\ commands' = <<>>
            /\ requests' = requests
            /\ Len(responses') = Len(responses) + 1
            /\ admin1' = admin1 /\ admin2' = admin2]_vars

C12_Witness ==
    /\ Outstanding = 1 /\ pc = "bulk_loop" /\ Len(requests) = 2
    /\ buffer = 1 /\ pos = 2 /\ Len(rows) = 4 /\ AllRowsDecode

\* the i-th call of the bootstrap failed: no response came, or the response
\* carries an error status
BootCallFailed(i) ==
    \/ ~bootReplies[i].delivered
    \/ bootReplies[i].call = "exists" /\ bootReplies[i].status \notin {OK, NOT_FOUND}
    \/ bootReplies[i].call = "create" /\ ~is_success(bootReplies[i].status)
    \/ bootReplies[i].call = "put_mapping" /\ bootReplies[i].status # OK

\* C13: nothing is retried. In a run the exists check, the create call and
\* the mapping-apply call are each issued at most once and every record goes
\* into at most one bulk request; a call that failed (no response, or an
\* error response) is the last call of the run to the endpoint, and the run
\* has ended in failure.
C13_NothingRetriedFailFast ==
    /\ Count("exists") <= 1 /\ Count("create") <= 1 /\ Count("put_mapping") <= 1
    /\ SentInFileOrder /\ Len(Flatten(requests)) + Len(commands) = records
    /\ \A i \in 1..Len(bootReplies) :
          BootCallFailed(i) =>
              /\ pc = "failed" /\ i = Len(bootReplies)
              /\ Count("create") + Count("put_mapping") = i - 1
              /\ requests = <<>>
    /\ \A k \in 1..Len(responses) :
          responses[k].kind # "ok" =>
              /\ pc = "failed" /\ k = Len(responses) /\ Len(requests) = k

Terminated == pc \in {"done", "failed"}

\* C14: with a finite stream and an endpoint that answers every request, a
\* run that is not over comes to an end, in done or in failed and never
\* both; the end is final for the run; the reader moves forward one row at
\* a time and never back, so each row is read at most once; and a run that
\* ends in done has read every row.
C14_RunTerminates ==
    /\ []<>Terminated
    /\ [](/\ pos <= Len(rows)
          /\ (pc = "done" => failure = "none" /\ pos = Len(rows) /\ DoneReported)
          /\ (pc = "failed" <=> failure # "none")
          /\ (pc = "failed" => ~DoneReported))
    /\ [][runs' = runs =>
            /\ pos' \in {pos, pos + 1}
            /\ (Terminated => pc' = pc)]_vars

C14_Witness ==
    /\ pc = "done" /\ Len(rows) = 4 /\ pos = 4 /\ buffer = 2 /\ Len(responses) = 2

\* a reference file that cannot be read, or one with a row that does not decode
FileBad(file) == file = None \/ (\E i \in 1..Len(file[1]) : file[1][i] = None)
LoadMustFail == FileBad(admin1File) \/ FileBad(admin2File)

\* C15: when a reference file is unreadable or has a malformed row the run
\* gets no further than the load: it ends in failure with both lookups
\* still empty (the rows before the malformed one are not kept), no call
\* made, no row read and no bulk request. Otherwise both lookups hold
\* their complete tables from the end of the load on, before any row is read,
\* and every document sent was enriched with the complete tables.
C15_LookupsCompleteOrNoRun ==
    /\ LoadMustFail =>
          /\ pc \in {"start", "failed"}
          /\ pc = "failed" => failure = "admin"
          /\ admin1 = EmptyMap /\ admin2 = EmptyMap
          /\ calls = <<>> /\ requests = <<>> /\ pos = 0 /\ commands = <<>>
          /\ ~DoneReported
    /\ (~LoadMustFail /\ pc # "start") =>
          admin1 = Admin1Table /\ admin2 = Admin2Table
    /\ pc = "start" => pos = 0 /\ commands = <<>> /\ requests = <<>>
    /\ \A i \in 1..Len(commands) :
          commands[i].doc = generate_elasticsearch_document(
                                rows[Len(Flatten(requests)) + i][1], Admin1Table, Admin2Table)
    /\ SentInFileOrder

C15_Witness ==
    /\ admin1File = Admin1BadRow /\ pc = "failed" /\ failure = "admin"
    /\ admin1 = EmptyMap /\ runs = 2

\* the one record of the archive has been read and enriched; the record, and
\* the document made of it (in the buffer, or in the request just sent)
Enriched == Len(rows) = 1 /\ rows[1] # None /\ pos = 1 /\ pc # "failed"
TheRecord == rows[1][1]
TheDocument == (Flatten(requests) \o commands)[1].doc

\* C16: the population of the document is null when the record's population
\* is negative, is the record's population when that is zero or more, and is
\* null when the record has none.
C16_PopulationSanitised ==
    Enriched =>
        LET p == TheRecord.population IN
        /\ p = None => TheDocument.population = None
        /\ (p # None /\ p[1] < 0) => TheDocument.population = None
        /\ (p # None /\ p[1] >= 0) => TheDocument.population = Some(p[1])

C16_Witness ==
    /\ Enriched /\ TheRecord.population = Some(0 - 1) /\ TheDocument.population = None

\* the sampled country codes in upper case, written out
UpperCased(cc) ==
    CASE cc \in {<<"u", "s">>, <<"U", "s">>, <<"U", "S">>} -> <<"U", "S">>
      [] cc = <<"d", "e">> -> <<"D", "E">>

\* C17: admin1 of the document is the admin1 table's entry under
\* uppercase(country_code) "." admin1_code when there is one and null when
\* there is none; admin2 likewise under uppercase(country_code) "."
\* admin1_code "." admin2_code. A miss, with empty admin codes too, yields
\* null: never an empty string, and the enrichment does not fail.
C17_AdminNamesResolved ==
    Enriched =>
        LET r == TheRecord
            key1 == UpperCased(r.country_code) \o <<".">> \o r.admin1_code
            key2 == key1 \o <<".">> \o r.admin2_code
        IN  /\ key1 \in DOMAIN admin1 => TheDocument.admin1 = Some(admin1[key1])
            /\ key1 \notin DOMAIN admin1 => TheDocument.admin1 = None
            /\ key2 \in DOMAIN admin2 => TheDocument.admin2 = Some(admin2[key2])
            /\ key2 \notin DOMAIN admin2 => TheDocument.admin2 = None
            /\ TheDocument.admin1 # Some("") /\ TheDocument.admin2 # Some("")

\* a record written "us" finds California and Alameda; one with empty admin
\* codes and no entry finds nothing
C17_Witness ==
    /\ Enriched /\ TheRecord.country_code = <<"u", "s">>
    /\ TheRecord.admin1_code = <<"C", "A">> /\ TheRecord.admin2_code = <<"0", "1">>
    /\ TheDocument.admin1 = Some("California") /\ TheDocument.admin2 = Some("Alameda")

\* C18: the location of the document is the pair longitude, latitude in that
\* order, both as the record has them.
C18_LocationLongitudeFirst ==
    Enriched =>
        /\ Len(TheDocument.location) = 2
        /\ TheDocument.location[1] = TheRecord.longitude
        /\ TheDocument.location[2] = TheRecord.latitude

C18_Witness ==
    /\ Enriched /\ TheRecord.longitude = 0 - 1 /\ TheRecord.latitude = 1
    /\ TheDocument.location = <<0 - 1, 1>>

\* the fields of the search document, and those of them copied from the record
SearchDocumentFields ==
    { "name", "ascii_name", "alternate_names", "location", "country_code",
      "feature_class", "feature_code", "admin1", "admin2", "population",
      "elevation", "timezone", "modification_date" }
PassThroughFields ==
    { "name", "ascii_name", "alternate_names", "country_code", "feature_class",
      "feature_code", "elevation", "timezone", "modification_date" }

\* C19: the document has every field of the search document, the copied
\* ones with the record's values, and its fields are exactly those the
\* index mapping declares.
C19_DocumentHasEveryField ==
    Enriched =>
        /\ SearchDocumentFields \subseteq DOMAIN TheDocument
        /\ \A f \in PassThroughFields \cap DOMAIN TheDocument : TheDocument[f] = TheRecord[f]
        /\ DOMAIN TheDocument = generate_mapping

\* C20: with buffer size N >= 1 the test records mod N = 0 is the test
\* "the buffer holds N operations". When a record has been appended the
\* buffer (as sent, if this append led to a flush) holds one operation more
\* than before, records mod N of them when that is not zero and N when it
\* is; the append leads to a flush exactly when the buffer has reached N;
\* and while the loop runs the buffer holds records mod N operations.
C20_FlushExactlyAtCapacity ==
    /\ []((buffer >= 1 /\ pc \in {"read", "bulk_loop"}) =>
              Len(commands) = records % buffer)
    /\ [][(buffer >= 1 /\ records' = records + 1) =>
            LET flushed == requests' # requests
                appended == IF flushed THEN requests'[Len(requests')] ELSE commands'
                m == records' % buffer
            IN  /\ Len(appended) = Len(commands) + 1
                /\ Len(appended) = (IF m = 0 THEN buffer ELSE m)
                /\ flushed <=> Len(appended) = buffer
                /\ flushed <=> m = 0
                /\ flushed => Len(requests') = Len(requests) + 1]_vars

C20_Witness ==
    /\ buffer = 2 /\ records = 3 /\ Len(commands) = 1 /\ Len(requests) = 1
    /\ Len(requests[1]) = 2 /\ pc = "read"

\* the exists check of this run was answered not-found
AnsweredNotFound ==
    /\ bootReplies # <<>>
    /\ bootReplies[1].call = "exists" /\ bootReplies[1].delivered
    /\ bootReplies[1].status = NOT_FOUND

\* C21: create and mapping-apply are called only in a run whose exists check
\* was answered not-found. A run aborted by a refused mapping-apply leaves
\* the index there without the mapping, so the run started after it begins
\* with the index present and unmapped; in a run that begins so the exists
\* check is never answered not-found, neither create nor mapping-apply is
\* called, the mapping stays unapplied, and the bulk requests of the run go
\* to the index as it is.
C21_BootstrapOnlyOnNotFound ==
    /\ []((Count("create") > 0 \/ Count("put_mapping") > 0) => AnsweredNotFound)
    /\ []((indexAtStart /\ ~mappingApplied) =>
            /\ indexExists /\ ~AnsweredNotFound
            /\ Count("create") = 0 /\ Count("put_mapping") = 0
            /\ \A i \in 1..Len(calls) : calls[i] \in {"exists", "open", "bulk"})
    /\ [][(failure = "mapping" /\ runs' = runs + 1) =>
            /\ MappingRefused /\ pc = "failed"
            /\ indexAtStart' /\ ~mappingApplied'
            /\ pc' = "start"]_vars
    /\ [][(indexAtStart /\ runs' = runs) => mappingApplied' = mappingApplied]_vars

\* the second run completes with bulk requests sent to the index the first
\* run created and could not map
C21_Witness ==
    /\ runs = 2 /\ indexAtStart /\ ~mappingApplied /\ pc = "done"
    /\ calls = <<"exists", "open", "bulk", "bulk">>
    /\ docs # EmptyMap

\* C22: with --buffer 0 no bulk request is ever issued. Over a stream that
\* is not empty the run reads one row and fails on it (on the remainder by
\* zero when the row decodes), and never reports success; over an empty
\* stream the loop is not entered and the step taken at the head of the loop
\* is the one that reports success, without a bulk request.
C22_ZeroCapacity ==
    /\ [](buffer = 0 =>
            /\ requests = <<>> /\ Count("bulk") = 0 /\ inflight = None
            /\ pos <= 1 /\ records <= 1
            /\ rows # <<>> => (pc # "done" /\ ~DoneReported)
            /\ pos = 1 =>
                  /\ pc = "failed"
                  /\ rows[1] # None => failure = "remainder by zero"
                  /\ rows[1] = None => failure = "decode")
    /\ [][(buffer = 0 /\ pc = "read") =>
            IF rows = <<>>
            THEN pc' = "done" /\ DoneReported' /\ requests' = <<>> /\ failure' = "none"
            ELSE pc' = "failed" /\ pos' = 1 /\ requests' = <<>>]_vars

C22_Witness ==
    /\ buffer = 0 /\ Len(rows) = 3 /\ AllRowsDecode /\ pos = 1 /\ records = 1
    /\ pc = "failed" /\ failure = "remainder by zero" /\ requests = <<>>
====
